---- MODULE Spec2Model ----
(***************************************************************************)
(* Life Goals Predictor 2050 (src/lifegoals2050.py): seed derivation, the  *)
(* weighted sampler, the rule engine, pick_all, reroll_section, the Monte  *)
(* Carlo aggregator and the narrative's flavor facts.                      *)
(*                                                                         *)
(* Strings that are hashed or normalised are sequences of one-character    *)
(* strings.  hashlib.sha256 and random.Random are library code: they are   *)
(* modelled by a small polynomial hash and a linear congruential generator *)
(* (a deterministic function of the bytes, resp. of the seed), with exact  *)
(* rational arithmetic for rng.uniform.                                    *)
(***************************************************************************)
EXTENDS Integers, Sequences, FiniteSets, TLC

VARIABLES traits, calls, mc, stories, wc

vars == <<traits, calls, mc, stories, wc>>

\* ------------------------------------------------------------------ bounds
MaxCalls == 3
MaxTrials == 3
MaxStories == 2
MaxPoolLen == 3

\* --------------------------------------------------------- content tables
TRAITS ==
  [career |-> <<
     [id |-> "ai_researcher", weight |-> 9, prestige |-> 9, risk |-> 5, tags |-> {"tech", "research"}, label |-> "AI Researcher", impact |-> "breakthroughs in human-AI collaboration"],
     [id |-> "creative_director", weight |-> 7, prestige |-> 7, risk |-> 4, tags |-> {"creative"}, label |-> "Creative Director", impact |-> "genre-bending campaigns and IP worlds"],
     [id |-> "founder", weight |-> 8, prestige |-> 8, risk |-> 9, tags |-> {"business", "risk"}, label |-> "Startup Founder", impact |-> "a profitable mission-driven company"],
     [id |-> "product_lead", weight |-> 8, prestige |-> 8, risk |-> 6, tags |-> {"tech", "product"}, label |-> "Product Lead", impact |-> "platforms used by millions"],
     [id |-> "cinematic_vfx", weight |-> 6, prestige |-> 7, risk |-> 6, tags |-> {"creative", "film"}, label |-> "Cinematic VFX Director", impact |-> "award-winning visuals"],
     [id |-> "wildcard_nomad", weight |-> 3, prestige |-> 5, risk |-> 7, tags |-> {"travel", "gig"}, label |-> "Digital Nomad", impact |-> "projects across continents"],
     [id |-> "data_ethicist", weight |-> 5, prestige |-> 7, risk |-> 3, tags |-> {"tech", "policy"}, label |-> "Data Ethicist", impact |-> "safer, fairer AI systems"],
     [id |-> "edu_creator", weight |-> 6, prestige |-> 6, risk |-> 5, tags |-> {"creator", "edu"}, label |-> "Edu Creator", impact |-> "teaching millions online"] >>,
   car |-> <<
     [id |-> "solid_ev", price |-> "mid", weight |-> 10, sustainability |-> 8, tags |-> {"ev"}, label |-> "reliable EV"],
     [id |-> "ultra_lux_ev", price |-> "ultra", weight |-> 3, sustainability |-> 8, tags |-> {"ev", "lux"}, label |-> "ultra-luxury EV"],
     [id |-> "retro_mod", price |-> "mid_low", weight |-> 4, sustainability |-> 5, tags |-> {"style"}, label |-> "retro-modern ride"],
     [id |-> "no_car_city", price |-> "none", weight |-> 6, sustainability |-> 10, tags |-> {"urban"}, label |-> "no personal car (city mobility)"],
     [id |-> "smart_scooter", price |-> "low", weight |-> 5, sustainability |-> 9, tags |-> {"urban", "ev"}, label |-> "smart e-scooter + transit"] >>,
   house |-> <<
     [id |-> "smart_apartment", price |-> "mid", space |-> "mid", weight |-> 10, tags |-> {"urban", "smart"}, label |-> "smart apartment"],
     [id |-> "skyline_penthouse", price |-> "ultra", space |-> "mid", weight |-> 2, tags |-> {"lux"}, label |-> "skyline penthouse"],
     [id |-> "villa_coastal", price |-> "high", space |-> "high", weight |-> 3, tags |-> {"coast"}, label |-> "coastal villa"],
     [id |-> "tiny_home", price |-> "low", space |-> "low", weight |-> 4, tags |-> {"minimal"}, label |-> "tiny home"],
     [id |-> "studio_loft", price |-> "mid_low", space |-> "mid_low", weight |-> 6, tags |-> {"urban", "creative"}, label |-> "studio loft"] >>,
   relationship |-> <<
     [id |-> "married_kids", weight |-> 7, label |-> "married with kids"],
     [id |-> "married_no_kids", weight |-> 6, label |-> "married, no kids"],
     [id |-> "partnered", weight |-> 6, label |-> "partnered"],
     [id |-> "solo", weight |-> 5, label |-> "solo"],
     [id |-> "global_long_distance", weight |-> 2, label |-> "global long-distance"] >>,
   fame |-> <<
     [id |-> "local_known", weight |-> 8, level |-> 3, label |-> "locally known"],
     [id |-> "industry_respected", weight |-> 8, level |-> 5, label |-> "industry-respected"],
     [id |-> "viral_creator", weight |-> 4, level |-> 7, label |-> "viral creator"],
     [id |-> "global_icon", weight |-> 1, level |-> 10, label |-> "global icon"],
     [id |-> "low_profile", weight |-> 6, level |-> 1, label |-> "low profile"] >>]

\* The tags that have flavor facts; each has three, named by <<tag, k>>.
MICRO_FACTS ==
  [t \in {"tech", "research", "creative", "film", "business", "creator",
          "urban", "minimal", "coast", "smart"} |-> <<<<t, 1>>, <<t, 2>>, <<t, 3>>>>]

DOMAINS == <<"career", "car", "house", "relationship", "fame">>

DomainSet == {DOMAINS[k] : k \in 1..Len(DOMAINS)}

\* ------------------------------------------------------------- characters
Lowercase == <<"a", "b", "c", "d", "e", "f", "g", "h", "i", "j", "k", "l", "m",
               "n", "o", "p", "q", "r", "s", "t", "u", "v", "w", "x", "y", "z">>

Uppercase == <<"A", "B", "C", "D", "E", "F", "G", "H", "I", "J", "K", "L", "M",
               "N", "O", "P", "Q", "R", "S", "T", "U", "V", "W", "X", "Y", "Z">>

DigitChars == <<"0", "1", "2", "3", "4", "5", "6", "7", "8", "9">>

IndexIn(seq, c) == CHOOSE k \in 1..Len(seq) : seq[k] = c

IsIn(seq, c) == \E k \in 1..Len(seq) : seq[k] = c

\* ord(c) of the characters used (ASCII).
Ord(c) ==
  IF IsIn(Lowercase, c) THEN 96 + IndexIn(Lowercase, c)
  ELSE IF IsIn(Uppercase, c) THEN 64 + IndexIn(Uppercase, c)
  ELSE IF IsIn(DigitChars, c) THEN 47 + IndexIn(DigitChars, c)
  ELSE IF c = ":" THEN 58
  ELSE IF c = "_" THEN 95
  ELSE 32

\* str.lower()
LowerChar(c) == IF IsIn(Uppercase, c) THEN Lowercase[IndexIn(Uppercase, c)] ELSE c

Lower(s) == [k \in 1..Len(s) |-> LowerChar(s[k])]

UpperChar(c) == IF IsIn(Lowercase, c) THEN Uppercase[IndexIn(Lowercase, c)] ELSE c

\* str.strip()
RECURSIVE LStrip(_)
LStrip(s) == IF s # <<>> /\ Head(s) = " " THEN LStrip(Tail(s)) ELSE s

RECURSIVE RStrip(_)
RStrip(s) ==
  IF s # <<>> /\ s[Len(s)] = " " THEN RStrip(SubSeq(s, 1, Len(s) - 1)) ELSE s

Strip(s) == RStrip(LStrip(s))

\* str(n) for n >= 0
RECURSIVE Digits(_)
Digits(n) ==
  IF n < 10 THEN <<DigitChars[n + 1]>>
  ELSE Digits(n \div 10) \o <<DigitChars[(n % 10) + 1]>>

\* -------------------------------------------------------------- utilities
\* Stand-ins for sha256 and for the Mersenne Twister (see the header).
HashMod == 509
HashBase == 31
HashInit == 7
RandMod == 256
RandMul == 37
RandInc == 11

\* int(hashlib.sha256(key).hexdigest(), 16) % (2**32 - 1)
RECURSIVE HashFrom(_, _)
HashFrom(h, s) ==
  IF s = <<>> THEN h ELSE HashFrom((h * HashBase + Ord(Head(s))) % HashMod, Tail(s))

Hash(s) == HashFrom(HashInit, s)

seed_from(name, timeline) ==
  Hash(Lower(Strip(name)) \o <<":", ":">> \o Lower(Strip(timeline)))

\* random.Random(seed): the generator's state
Random(seed) == seed % RandMod

\* one step of the generator; the new state is also the output, read as the
\* fraction state / RandMod in [0, 1)
RngNext(rng) == (RandMul * rng + RandInc) % RandMod

rng_for(name, timeline, salt) ==
  Random(Hash(Digits(seed_from(name, timeline)) \o <<":">> \o salt))

\* max(0.0, float(i.get(key, 0)))
Weight(it) ==
  IF "weight" \in DOMAIN it THEN (IF it.weight > 0 THEN it.weight ELSE 0) ELSE 0

RECURSIVE CumWeight(_, _)
CumWeight(items, k) == IF k = 0 THEN 0 ELSE CumWeight(items, k - 1) + Weight(items[k])

\* the empty dict {} returned for an empty candidate list
EmptyDict == <<>>

\* pick <= c, with pick = total * rng / RandMod
weighted_choice_lt(rng, items) ==
  LET total == CumWeight(items, Len(items))
      rng1 == IF total > 0 THEN RngNext(rng) ELSE rng
      pickNum == IF total > 0 THEN total * rng1 ELSE 0
      hits == {k \in 1..Len(items) : pickNum < CumWeight(items, k) * RandMod}
  IN  [rng |-> rng1,
       outcome |-> "returned",
       item |-> IF hits # {} THEN items[CHOOSE k \in hits : \A j \in hits : k <= j]
                ELSE IF items # <<>> THEN items[Len(items)] ELSE EmptyDict]

\* weighted_choice returns an item in every case: the code has no raise.
weighted_choice(rng, items) ==
  LET total == CumWeight(items, Len(items))
      rng1 == IF total > 0 THEN RngNext(rng) ELSE rng
      pickNum == IF total > 0 THEN total * rng1 ELSE 0
      hits == {k \in 1..Len(items) : pickNum <= CumWeight(items, k) * RandMod}
  IN  [rng |-> rng1,
       outcome |-> "returned",
       item |-> IF hits # {} THEN items[CHOOSE k \in hits : \A j \in hits : k <= j]
                ELSE IF items # <<>> THEN items[Len(items)] ELSE EmptyDict]

fame_meter(level) ==
  LET l == IF level < 0 THEN 0 ELSE IF level > 10 THEN 10 ELSE level
  IN  [stars |-> l, blanks |-> 10 - l]

\* ------------------------------------------------------------ rule engine
TraceCarBoost == "car: luxury boost (prestige >=8 & fame >=7)"
TraceCarDamp == "car: luxury damped (prestige/fame below threshold)"
TraceCarUrban == "car: urban mobility boost"
TraceHouseSolo == "house: compact-living boost (solo)"
TraceHouseUrban == "house: urban access boost (city mobility)"
TraceHousePenthouse == "house: penthouse boost (prestige & fame)"
TraceFameNudge == "fame: creator/founder nudge"

\* A pool is a list of references: obj is the dict's content, fresh tells
\* whether the dict is a new object (dict(x)) or the table's own item.
Alias(table) == [k \in 1..Len(table) |-> [obj |-> table[k], fresh |-> FALSE]]

CarPoolCopy_alias(table) == Alias(table)

\* car_pool = [dict(x) for x in TRAITS["car"]]
CarPoolCopy(table) == [k \in 1..Len(table) |-> [obj |-> table[k], fresh |-> TRUE]]

HousePoolCopy_alias(table) == Alias(table)

\* house_pool = [dict(x) for x in TRAITS["house"]]
HousePoolCopy(table) == [k \in 1..Len(table) |-> [obj |-> table[k], fresh |-> TRUE]]

FamePoolCopy_alias(table) == Alias(table)

\* fame_pool = [dict(x) for x in TRAITS["fame"]]
FamePoolCopy(table) == [k \in 1..Len(table) |-> [obj |-> table[k], fresh |-> TRUE]]

\* the dicts of a pool, as weighted_choice reads them
PoolItems(pool) == [k \in 1..Len(pool) |-> pool[k].obj]

\* the table after the writes to the pool: a write lands on the table's item
\* only where the pool's entry is that very item
TableAfter(table, pool) ==
  [k \in 1..Len(table) |-> IF pool[k].fresh THEN table[k] ELSE pool[k].obj]

\* the items each adjustment selects
LuxIds == {"ultra_lux_ev"}

CityCarIds == {"no_car_city", "smart_scooter"}

CompactIds == {"tiny_home", "studio_loft"}

\* if "urban" in it.get("tags", [])
UrbanIds(pool) == {pool[k].obj.id : k \in {j \in 1..Len(pool) : "urban" \in pool[j].obj.tags}}

PenthouseIds == {"skyline_penthouse"}

NudgedFameIds == {"viral_creator", "industry_respected"}

\* for it in pool: if it["id"] in ids: it["weight"] += delta
AddWeight(pool, ids, delta) ==
  [k \in 1..Len(pool) |->
     IF pool[k].obj.id \in ids THEN [pool[k] EXCEPT !.obj.weight = @ + delta] ELSE pool[k]]

\* it["weight"] = max(1, it["weight"] - 2) for ultra_lux_ev
DampLux(pool) ==
  [k \in 1..Len(pool) |->
     IF pool[k].obj.id \in LuxIds
     THEN [pool[k] EXCEPT !.obj.weight = IF @ - 2 > 1 THEN @ - 2 ELSE 1]
     ELSE pool[k]]

CarLuxCond(prestige, fame_level) == prestige >= 8 /\ fame_level >= 7

UrbanishCond(house, career) == ("urban" \in house.tags) \/ ("tech" \in career.tags)

CompactCond_wide(rel_id) == rel_id \in {"solo", "partnered", "global_long_distance"}

CompactCond(rel_id) == rel_id = "solo"

CityCarCond(car) == car.id \in CityCarIds

PenthouseCond_or(prestige, fame_level) == prestige >= 8 \/ fame_level >= 7

PenthouseCond(prestige, fame_level) == prestige >= 8 /\ fame_level >= 7

CreatorCond(career) ==
  ("creator" \in career.tags) \/ (career.id \in {"founder", "cinematic_vfx"})

\* apply_rules(p, rng), with the TRAITS table tr it reads; returns the picks,
\* the generator, the table after the call and the call's locals (frame).
apply_rules(p, rng, tr) ==
  LET prestige == p.career.prestige
      fame_level == p.fame.level
      rel_id == p.relationship.id
      lux == CarLuxCond(prestige, fame_level)
      car0 == CarPoolCopy(tr.car)
      car1 == IF lux THEN AddWeight(car0, LuxIds, 3) ELSE DampLux(car0)
      trace1 == Append(p.trace, IF lux THEN TraceCarBoost ELSE TraceCarDamp)
      is_urbanish == UrbanishCond(p.house, p.career)
      car_pool == IF is_urbanish THEN AddWeight(car1, CityCarIds, 2) ELSE car1
      trace2 == IF is_urbanish THEN Append(trace1, TraceCarUrban) ELSE trace1
      tr1 == [tr EXCEPT !.car = TableAfter(@, car_pool)]
      carPick == weighted_choice(rng, PoolItems(car_pool))
      car == carPick.item
      house0 == HousePoolCopy(tr1.house)
      solo == CompactCond(rel_id)
      house1 == IF solo THEN AddWeight(house0, CompactIds, 3) ELSE house0
      trace3 == IF solo THEN Append(trace2, TraceHouseSolo) ELSE trace2
      city == CityCarCond(car)
      house2 == IF city THEN AddWeight(house1, UrbanIds(house1), 2) ELSE house1
      trace4 == IF city THEN Append(trace3, TraceHouseUrban) ELSE trace3
      pent == PenthouseCond(prestige, fame_level)
      house_pool == IF pent THEN AddWeight(house2, PenthouseIds, 2) ELSE house2
      trace5 == IF pent THEN Append(trace4, TraceHousePenthouse) ELSE trace4
      tr2 == [tr1 EXCEPT !.house = TableAfter(@, house_pool)]
      housePick == weighted_choice(carPick.rng, PoolItems(house_pool))
      fame0 == FamePoolCopy(tr2.fame)
      nudge == CreatorCond(p.career)
      fame_pool == IF nudge THEN AddWeight(fame0, NudgedFameIds, 1) ELSE fame0
      trace6 == IF nudge THEN Append(trace5, TraceFameNudge) ELSE trace5
      tr3 == [tr2 EXCEPT !.fame = TableAfter(@, fame_pool)]
      famePick == IF nudge THEN weighted_choice(housePick.rng, PoolItems(fame_pool))
                  ELSE [rng |-> housePick.rng, outcome |-> "returned", item |-> p.fame]
  IN  [p |-> [career |-> p.career, car |-> car, house |-> housePick.item,
              relationship |-> p.relationship, fame |-> famePick.item,
              trace |-> trace6],
       rng |-> famePick.rng,
       traits |-> tr3,
       frame |-> [prestige |-> prestige, fame_level |-> fame_level, rel_id |-> rel_id,
                  car_pool |-> PoolItems(car_pool),
                  house_pool |-> PoolItems(house_pool),
                  fame_pool |-> PoolItems(fame_pool)]]

\* ------------------------------------------------------------ pick_all
NoLock == <<>>

\* lock.get(d) or weighted_choice(rng, TRAITS[d])
LockOrChoice(lock, d, rng, tr) ==
  IF d \in DOMAIN lock /\ lock[d] # EmptyDict
  THEN [rng |-> rng, outcome |-> "returned", item |-> lock[d]]
  ELSE weighted_choice(rng, tr[d])

pick_all(name, timeline, lock, salt, tr) ==
  LET career == LockOrChoice(lock, "career", rng_for(name, timeline, salt), tr)
      fame == LockOrChoice(lock, "fame", career.rng, tr)
      relationship == LockOrChoice(lock, "relationship", fame.rng, tr)
      car == LockOrChoice(lock, "car", relationship.rng, tr)
      house == LockOrChoice(lock, "house", car.rng, tr)
  IN  apply_rules([career |-> career.item, car |-> car.item, house |-> house.item,
                   relationship |-> relationship.item, fame |-> fame.item,
                   trace |-> <<>>],
                  house.rng, tr)

DomainChars ==
  [career |-> <<"c", "a", "r", "e", "e", "r">>,
   car |-> <<"c", "a", "r">>,
   house |-> <<"h", "o", "u", "s", "e">>,
   relationship |-> <<"r", "e", "l", "a", "t", "i", "o", "n", "s", "h", "i", "p">>,
   fame |-> <<"f", "a", "m", "e">>]

RerollSalt(domain) == <<"r", "e", "r", "o", "l", "l", ":">> \o DomainChars[domain]

McSalt(i) == <<"m", "c", ":">> \o Digits(i)

FactsSalt == <<"f", "a", "c", "t", "s">>

RerollLocks_norel(domain, base) ==
  [d \in (DomainSet \ {domain, "relationship"}) |-> base[d]]

\* locks = {d: getattr(base, d) for d in DOMAINS if d != domain}
RerollLocks(domain, base) == [d \in (DomainSet \ {domain}) |-> base[d]]

reroll_section(name, timeline, domain, base, tr) ==
  pick_all(name, timeline, RerollLocks(domain, base), RerollSalt(domain), tr)

\* ------------------------------------------------------------ narrative
short_label(d) == IF "label" \in DOMAIN d /\ d.label # "" THEN d.label ELSE d.id

\* name.strip().split()[0].title() if name.strip() else "You"
RECURSIVE FirstWord(_)
FirstWord(s) ==
  IF s = <<>> \/ Head(s) = " " THEN <<>> ELSE <<Head(s)>> \o FirstWord(Tail(s))

Title(w) == [k \in 1..Len(w) |-> IF k = 1 THEN UpperChar(w[k]) ELSE LowerChar(w[k])]

FirstName(name) ==
  IF Strip(name) # <<>> THEN Title(FirstWord(Strip(name))) ELSE <<"Y", "o", "u">>

\* the orders in which iterating the set S can yield its elements
Enumerations(S) ==
  {f \in [1..Cardinality(S) -> S] : \A a, b \in 1..Cardinality(S) : a # b => f[a] # f[b]}

tag_pool(p) == p.career.tags \cup p.house.tags \cup p.car.tags

\* for t in tag_pool: options.extend(MICRO_FACTS.get(t, []))
RECURSIVE Options(_)
Options(order) ==
  IF order = <<>> THEN <<>>
  ELSE (IF Head(order) \in DOMAIN MICRO_FACTS THEN MICRO_FACTS[Head(order)] ELSE <<>>)
       \o Options(Tail(order))

Swap(x, a, b) == [x EXCEPT ![a] = x[b], ![b] = x[a]]

\* random.shuffle: for i in reversed(range(1, len(x))): j = randbelow(i + 1);
\* x[i], x[j] = x[j], x[i]   (i, j are 0-based)
RECURSIVE ShuffleFrom(_, _, _)
ShuffleFrom(x, i, rng) ==
  IF i < 1 THEN x
  ELSE LET r == RngNext(rng)
           j == (r * (i + 1)) \div RandMod
       IN  ShuffleFrom(Swap(x, i + 1, j + 1), i - 1, r)

shuffle(x, rng) == ShuffleFrom(x, Len(x) - 1, rng)

\* microfacts_for(p, rng, k), the set's iteration order being `order`
microfacts_for(p, rng, k, order) ==
  LET shuffled == shuffle(Options(order), rng)
  IN  SubSeq(shuffled, 1, IF Len(shuffled) < k THEN Len(shuffled) ELSE k)

\* narrative(name, p, timeline): the contents of the four lines
narrative(name, p, timeline, order) ==
  [line1 |-> <<FirstName(name), short_label(p.career), p.career.impact>>,
   line2 |-> <<short_label(p.house), short_label(p.car)>>,
   line3 |-> <<p.relationship.label, p.fame.label, fame_meter(p.fame.level)>>,
   line4 |-> microfacts_for(p, rng_for(name, timeline, FactsSalt), 2, order)]

\* ---------------------------------------------------------- monte carlo
\* counts[d][key] = counts[d].get(key, 0) + 1
Bump_reset(m, key) == [x \in (DOMAIN m) \cup {key} |-> IF x = key THEN 1 ELSE m[x]]

Bump(m, key) ==
  [x \in (DOMAIN m) \cup {key} |->
     IF x = key THEN (IF key \in DOMAIN m THEN m[key] ELSE 0) + 1 ELSE m[x]]

\* for d in DOMAINS: key = getattr(p, d)["id"]; counts[d][key] = ...
Tally(counts, p) == [d \in DomainSet |-> Bump(counts[d], p[d].id)]

\* counts = {d: {} for d in DOMAINS}
EmptyCounts == [d \in DomainSet |-> <<>>]

\* ----------------------------------------------------------------- inputs
Names == {<<" ", "A", "d", "a">>, <<"b", "o", " ", "l", "i">>}

Timelines == {<<"P", "r", "i", "m", "e", " ">>}

SamplerWeights == {0 - 2, 0, 3}

SamplerItems(k) == {[id |-> k, weight |-> w] : w \in SamplerWeights} \cup {[id |-> k]}

SamplerPools ==
  UNION {{f \in [1..n -> UNION {SamplerItems(k) : k \in 1..n}] :
            \A k \in 1..n : f[k].id = k} : n \in 0..MaxPoolLen}

\* ------------------------------------------------------------------ state
Init ==
  /\ traits = TRAITS
  /\ calls = <<>>
  /\ mc = [phase |-> "idle", name |-> <<>>, timeline |-> <<>>, n |-> 0, i |-> 0,
           counts |-> EmptyCounts, traits0 |-> TRAITS]
  /\ stories = <<>>
  /\ wc = [phase |-> "idle", items |-> <<>>, rng |-> 0, outcome |-> "none",
           item |-> EmptyDict]

\* a call of pick_all, from run or from reroll_section, and what it returned
CallRecord(name, timeline, lock, salt, domain, base, r) ==
  [name |-> name, timeline |-> timeline, lock |-> lock, salt |-> salt,
   domain |-> domain, base |-> base, picks |-> r.p, frame |-> r.frame]

\* base = pick_all(name, timeline)
PickAllCall ==
  /\ mc.phase # "loop"
  /\ Len(calls) < MaxCalls
  /\ \E name \in Names, timeline \in Timelines :
       LET r == pick_all(name, timeline, NoLock, <<>>, traits)
       IN  /\ calls' = Append(calls, CallRecord(name, timeline, NoLock, <<>>, "none", <<>>, r))
           /\ traits' = r.traits
  /\ UNCHANGED <<mc, stories, wc>>

\* p = reroll_section(name, timeline, reroll, base), base being a Pick-Set
\* returned earlier for the same name and timeline, as in run
RerollCall ==
  /\ mc.phase # "loop"
  /\ Len(calls) < MaxCalls
  /\ \E k \in 1..Len(calls), domain \in DomainSet :
       LET c == calls[k]
           r == reroll_section(c.name, c.timeline, domain, c.picks, traits)
       IN  /\ calls' = Append(calls, CallRecord(c.name, c.timeline,
                                                RerollLocks(domain, c.picks),
                                                RerollSalt(domain), domain, c.picks, r))
           /\ traits' = r.traits
  /\ UNCHANGED <<mc, stories, wc>>

\* monte_carlo(name, timeline, n): entry
McStart ==
  /\ mc.phase = "idle"
  /\ \E name \in Names, timeline \in Timelines, n \in 0..MaxTrials :
       mc' = [phase |-> "loop", name |-> name, timeline |-> timeline, n |-> n, i |-> 0,
              counts |-> EmptyCounts, traits0 |-> traits]
  /\ UNCHANGED <<traits, calls, stories, wc>>

\* one iteration of: for i in range(n)
McTrial ==
  /\ mc.phase = "loop"
  /\ mc.i < mc.n
  /\ LET r == pick_all(mc.name, mc.timeline, NoLock, McSalt(mc.i), traits)
     IN  /\ mc' = [mc EXCEPT !.counts = Tally(@, r.p), !.i = @ + 1]
         /\ traits' = r.traits
  /\ UNCHANGED <<calls, stories, wc>>

\* return counts
McReturn ==
  /\ mc.phase = "loop"
  /\ mc.i >= mc.n
  /\ mc' = [mc EXCEPT !.phase = "done"]
  /\ UNCHANGED <<traits, calls, stories, wc>>

Next == PickAllCall \/ RerollCall \/ McStart \/ McTrial \/ McReturn

Spec == Init /\ [][Next]_vars

\* run: base = pick_all(name, timeline)
RunPick ==
  /\ calls = <<>>
  /\ PickAllCall

\* run: p = reroll_section(name, timeline, reroll, base) if reroll else base
RunReroll ==
  /\ Len(calls) = 1
  /\ stories = <<>>
  /\ RerollCall

\* story = narrative(name, p, timeline); str hashes are randomised per
\* interpreter start, so the set of tags is iterated in any order
RunStory ==
  /\ calls # <<>>
  /\ Len(stories) < MaxStories
  /\ LET c == calls[Len(calls)]
     IN  \E order \in Enumerations(tag_pool(c.picks)) :
           stories' = Append(stories,
                             [name |-> c.name, timeline |-> c.timeline, picks |-> c.picks,
                              text |-> narrative(c.name, c.picks, c.timeline, order)])
  /\ UNCHANGED <<traits, calls, mc, wc>>

NextNarrative == RunPick \/ RunReroll \/ RunStory

SpecNarrative == Init /\ [][NextNarrative]_vars

\* run: the picks followed by counts = monte_carlo(name, timeline, n=mc_trials)
NextAggregate == RunPick \/ RunReroll \/ McStart \/ McTrial \/ McReturn

SpecAggregate == Init /\ [][NextAggregate]_vars

\* weighted_choice(rng, items) on its own
SamplerCall ==
  /\ wc.phase = "idle"
  /\ \E items \in SamplerPools, rng \in 0..(RandMod - 1) :
       LET r == weighted_choice(rng, items)
       IN  wc' = [phase |-> "called", items |-> items, rng |-> rng,
                  outcome |-> r.outcome, item |-> r.item]
  /\ UNCHANGED <<traits, calls, mc, stories>>

NextSampler == SamplerCall

SpecSampler == Init /\ [][NextSampler]_vars

\* ------------------------------------------------------------ properties
Count(t, e) == Cardinality({j \in 1..Len(t) : t[j] = e})

Position(t, e) == CHOOSE j \in 1..Len(t) : t[j] = e

CallIndexes == 1..Len(calls)

SameArguments(a, b) ==
  /\ a.name = b.name
  /\ a.timeline = b.timeline
  /\ a.salt = b.salt
  /\ a.lock = b.lock

\* C1: two runs of pick_all with the same name, timeline, salt and lock map
\* return the same five items and the same trace, entry for entry.
PickDeterminism ==
  \A a, b \in CallIndexes :
    SameArguments(calls[a], calls[b]) => calls[a].picks = calls[b].picks

\* two runs with the same arguments and a non-empty lock map, a third call
\* having run between or before them
PickDeterminismWitness ==
  \E a, b \in CallIndexes :
    /\ a < b
    /\ SameArguments(calls[a], calls[b])
    /\ calls[b].lock # NoLock
    /\ Len(calls[b].picks.trace) >= 2

\* C2: two calls of narrative with the same name, timeline and Pick-Set return
\* the same text, whatever order the tags are enumerated in.
NarrativePure ==
  \A a, b \in 1..Len(stories) :
    (/\ stories[a].name = stories[b].name
     /\ stories[a].timeline = stories[b].timeline
     /\ stories[a].picks = stories[b].picks)
    => stories[a].text = stories[b].text

\* C3: weighted_choice called with an empty list signals an error.
EmptyPoolRejected ==
  (wc.phase = "called" /\ wc.items = <<>>) => wc.outcome = "raised"

AllWeightsZeroOrLess(items) ==
  \A k \in 1..Len(items) : "weight" \in DOMAIN items[k] /\ items[k].weight <= 0

\* C4: on a non-empty pool whose weights are all 0 or negative weighted_choice
\* returns the first item, for every state of the generator, and does not raise.
ZeroWeightFirst ==
  (wc.phase = "called" /\ wc.items # <<>> /\ AllWeightsZeroOrLess(wc.items))
  => (wc.outcome = "returned" /\ wc.item = wc.items[1])

ZeroWeightFirstWitness ==
  /\ wc.phase = "called"
  /\ Len(wc.items) >= 2
  /\ AllWeightsZeroOrLess(wc.items)
  /\ \E k \in 1..Len(wc.items) : wc.items[k].weight < 0
  /\ wc.rng > 0
  /\ wc.item = wc.items[1]

RECURSIVE SumCounts(_)
SumCounts(m) ==
  IF DOMAIN m = {} THEN 0
  ELSE LET key == CHOOSE x \in DOMAIN m : TRUE
       IN  m[key] + SumCounts([x \in (DOMAIN m) \ {key} |-> m[x]])

\* C5: after i completed trials of monte_carlo every domain's counts sum to
\* i and every recorded count is at least 1; at the return i is N.
AggregateConservation ==
  /\ (mc.phase # "idle") =>
       \A d \in DomainSet :
         /\ SumCounts(mc.counts[d]) = mc.i
         /\ \A key \in DOMAIN mc.counts[d] : mc.counts[d][key] >= 1
  /\ (mc.phase = "done") => mc.i = mc.n

AggregateConservationWitness ==
  /\ mc.phase = "done"
  /\ mc.n >= 2
  /\ \E d \in DomainSet : \E key \in DOMAIN mc.counts[d] : mc.counts[d][key] >= 2

CreatorOrFounder(career) ==
  ("creator" \in career.tags) \/ career.id = "founder" \/ career.id = "cinematic_vfx"

LuxWeight(pool) == pool[CHOOSE k \in 1..Len(pool) : pool[k].id = "ultra_lux_ev"].weight

\* C7: the first trace entry is the car boost or the car damp entry and no
\* later entry is one of them; it is the boost entry exactly when prestige >= 8
\* and the fame level on entry >= 7, the ultra_lux_ev weight then being +3 and
\* otherwise max(1, weight - 2); the penthouse entry is in the trace exactly
\* when the boost branch fired.
CarSynergyRule ==
  \A k \in CallIndexes :
    LET c == calls[k]
        t == c.picks.trace
        high == c.picks.career.prestige >= 8 /\ c.frame.fame_level >= 7
        base == LuxWeight(TRAITS.car)
    IN  /\ Len(t) >= 1
        /\ t[1] \in {TraceCarBoost, TraceCarDamp}
        /\ Count(t, TraceCarBoost) + Count(t, TraceCarDamp) = 1
        /\ (t[1] = TraceCarBoost) <=> high
        /\ LuxWeight(c.frame.car_pool) =
             (IF high THEN base + 3 ELSE IF base - 2 > 1 THEN base - 2 ELSE 1)
        /\ (Count(t, TraceHousePenthouse) = 1) <=> (t[1] = TraceCarBoost)
        /\ Count(t, TraceHousePenthouse) <= 1

\* one call took the boost branch and another the damp branch
CarSynergyRuleWitness ==
  /\ \E k \in CallIndexes :
       /\ calls[k].picks.trace[1] = TraceCarBoost
       /\ Count(calls[k].picks.trace, TraceHousePenthouse) = 1
  /\ \E k \in CallIndexes : calls[k].picks.trace[1] = TraceCarDamp

\* C8: no call changes an item of TRAITS.
TraitsNeverMutated == traits = TRAITS

\* pick_all, reroll_section and monte_carlo have run, the fame pool having
\* been adjusted at least once
TraitsNeverMutatedWitness ==
  /\ \E k \in CallIndexes : calls[k].domain = "none"
  /\ \E k \in CallIndexes :
       /\ calls[k].domain # "none"
       /\ Count(calls[k].picks.trace, TraceFameNudge) = 1
  /\ mc.phase = "done"
  /\ mc.n >= 1

\* the tally of the trials computed in the given order, each trial reading
\* the table the previous one left
RECURSIVE TallyInOrder(_, _, _, _, _)
TallyInOrder(name, timeline, order, tr, counts) ==
  IF order = <<>> THEN counts
  ELSE LET r == pick_all(name, timeline, NoLock, McSalt(Head(order)), tr)
       IN  TallyInOrder(name, timeline, Tail(order), r.traits, Tally(counts, r.p))

TraceAgreesWithPicks ==
  \A k \in CallIndexes :
    LET p == calls[k].picks
        t == p.trace
        solo == Count(t, TraceHouseSolo) = 1
        urban == Count(t, TraceHouseUrban) = 1
        nudge == Count(t, TraceFameNudge) = 1
    IN  /\ \A a, b \in 1..Len(t) : a # b => t[a] # t[b]
        /\ solo <=> p.relationship.id = "solo"
        /\ urban <=> p.car.id \in {"no_car_city", "smart_scooter"}
        /\ nudge <=> CreatorOrFounder(p.career)
        /\ (solo /\ urban) => Position(t, TraceHouseSolo) < Position(t, TraceHouseUrban)
        /\ (urban /\ nudge) => Position(t, TraceHouseUrban) < Position(t, TraceFameNudge)
        /\ (solo /\ nudge) => Position(t, TraceHouseSolo) < Position(t, TraceFameNudge)

\* one returned Pick-Set has the solo and the urban-access entries, one has
\* the creator/founder entry, and one has none of the three
TraceAgreesWithPicksWitness ==
  /\ \E k \in CallIndexes :
       /\ Count(calls[k].picks.trace, TraceHouseSolo) = 1
       /\ Count(calls[k].picks.trace, TraceHouseUrban) = 1
  /\ \E k \in CallIndexes : Count(calls[k].picks.trace, TraceFameNudge) = 1
  /\ \E k \in CallIndexes :
       /\ Count(calls[k].picks.trace, TraceHouseSolo) = 0
       /\ Count(calls[k].picks.trace, TraceHouseUrban) = 0
       /\ Count(calls[k].picks.trace, TraceFameNudge) = 0

====
